---- MODULE Spec2Model ----
(***************************************************************************)
(* Model of the incremental repository synchronizer of repotracker:        *)
(* RepositoryManager (src/src/objects/RepositoryManager.py) driven by      *)
(* main (src/main.py), over the four tables staff, repository, branch and  *)
(* commit with the constraints declared in src/src/db/models.py.           *)
(*                                                                         *)
(* Modelling decisions:                                                    *)
(*  - a table is the sequence of its rows in insertion order; no statement *)
(*    of the program deletes a row, so the ID the store assigns to a row   *)
(*    (lastrowid) is its position in the sequence;                         *)
(*  - SQL statements are modelled by their relational meaning, with the    *)
(*    unique, not-null and check constraints of models.py; the column and  *)
(*    table names of the statements are kept (the statements name the      *)
(*    commit table "commit" and the creator column "AuthorID");            *)
(*  - timestamps are integers, datetime.min is DatetimeMin; a timestamp is *)
(*    stored as its ISO text, modelled as the pair <<"iso", t>>;           *)
(*  - the working copy of a repository is, per local branch, the sequence  *)
(*    of commits iter_commits delivers (tip first);                        *)
(*  - a commit's date is the local time datetime.fromtimestamp gives for   *)
(*    its committed_date; the wall clock never runs backwards;             *)
(*  - the working copies and the directory listing change only between two *)
(*    runs of main (single process, batch invocation).                     *)
(***************************************************************************)
EXTENDS Integers, Sequences, FiniteSets, TLC

\* ------------------------------------------------------------------ bounds
MaxTime == 3
MaxRevs == 1
MaxRuns == 2
MaxCalls == 2
\* runs of main and commits added in the recovery specification
MaxRunsRecovery == 3
MaxRevsRecovery == 2

\* ------------------------------------------------------- program constants
DatetimeMin == 0

\* the declarative list of tracked repositories (data["repositories"])
TrackedJson == <<"a", "b">>
RepoNames == {TrackedJson[k] : k \in 1..Len(TrackedJson)}
\* repository.branches enumerates the local heads sorted by name
BranchOrder == <<"dev", "main">>
BranchNames == {BranchOrder[k] : k \in 1..Len(BranchOrder)}
AuthorNames == {"alice", "bob"}
FileCounts == {1}
Times == 1..MaxTime

\* the absent identifier: fetchone() gave no row, or a column is NULL
Null == 0
\* what iter_commits delivers for main of a tracked repository before the
\* user's commits: two commits, the tip first
InitialHistory ==
    <<[message |-> 2, author |-> "bob", date |-> 2, files |-> 1],
      [message |-> 1, author |-> "alice", date |-> 1, files |-> 1]>>
NoFailure == [phase |-> "none", name |-> "none"]
NoCall == [op |-> "none"]

VARIABLES
    staff,            \* table staff:      rows [Name]
    repository,       \* table repository: rows [Name, AuthorID, LastCommitDate]
    branch,           \* table branch:     rows [Name, RepoID]
    commit,           \* table commit:     rows [AuthorID, BranchID, Comment, Date, FileChanges]
    listdir,          \* os.listdir("./tracked_repos")
    cloned,           \* names n whose path "./tracked_repos" + n holds a working copy
    heads,            \* heads[n][b]: the commits of local branch b of n, tip first
    nrevs,            \* number of commits added to the working copies so far
    now,              \* the last reading of the wall clock
    pc,               \* position of main
    runs,             \* number of runs of main started
    repository_list,  \* RepositoryManager.repository_list (handles, by name)
    idx,              \* index of the loop in progress (load loop, update loop)
    last_commit_date, \* update_repository: the watermark read at line 54
    branches,         \* update_repository: repository.branches
    bi,               \* update_repository: index of the branch in progress
    branch_id,        \* update_repository: identifier resolved at line 62
    new_commits,      \* update_repository: list returned by _get_new_commits
    ci,               \* update_repository: index of the commit to insert next
    inspected,        \* per branch of the pass: commits taken from iter_commits
    db0,              \* the tables as they were when the pass in progress began
    passRows,         \* the commit rows inserted by the pass in progress
    wmWrites,         \* calls of _update_last_commit_date made by the pass in progress
    staffCalls,       \* name -> results of the _get_or_create_staff calls made
    branchCalls,      \* <<repo, branch>> -> results of the _get_or_create_branch calls made
    failed,           \* where the run in progress raised, or NoFailure
    synced,           \* repositories whose pass completed in the run in progress
    aborted,          \* name -> {the pass an insert aborted last: heads, watermark, rows}
    lastSynced,       \* name -> {the heads at its last completed pass}, {} if none
    clean,            \* no run has raised so far
    call              \* the last direct call of the store (store specification)

vars == <<staff, repository, branch, commit, listdir, cloned, heads, nrevs, now,
          pc, runs, repository_list, idx, last_commit_date, branches, bi,
          branch_id, new_commits, ci, inspected, db0, passRows, wmWrites,
          staffCalls, branchCalls, failed, synced, aborted, lastSynced, clean,
          call>>

dbVars == <<staff, repository, branch, commit>>
envVars == <<listdir, cloned, heads, nrevs>>
passVars == <<last_commit_date, branches, bi, branch_id, new_commits, ci,
              inspected, db0, passRows, wmWrites>>

\* --------------------------------------------------------------- datetime
\* datetime.isoformat() and datetime.fromisoformat()
Isoformat(t) == <<"iso", t>>
Fromisoformat(s) == s[2]

\* ------------------------------------------------------------ the tables
\* fetchone() of a SELECT ID ...: the first of the matching rows' IDs, or Null
FirstId(ids) ==
    IF ids = {} THEN Null ELSE CHOOSE k \in ids : \A j \in ids : k <= j

\* (SELECT ID FROM repository WHERE Name = ?)
RepoIdByName(repo, repo_name) ==
    FirstId({k \in 1..Len(repo) : repo[k].Name = repo_name})

\* a plausible slip: without a row the answer is the column default of
\* models.py (the epoch), which is later than datetime.min
GetLastCommitDateEpoch(repo, repo_name) ==
    LET id == RepoIdByName(repo, repo_name)
    IN IF id # Null THEN Fromisoformat(repo[id].LastCommitDate) ELSE DatetimeMin + 1

\* _get_last_commit_date
GetLastCommitDate(repo, repo_name) ==
    LET id == RepoIdByName(repo, repo_name)
    IN IF id # Null THEN Fromisoformat(repo[id].LastCommitDate) ELSE DatetimeMin

\* a plausible slip: the time written is an hour off the local wall clock
\* (utcnow() for now())
UpdateLastCommitDateOffset(repo, repo_name, t) ==
    [k \in 1..Len(repo) |->
        IF repo[k].Name = repo_name
        THEN [repo[k] EXCEPT !.LastCommitDate = Isoformat(t - 1)]
        ELSE repo[k]]

\* a plausible slip: the UPDATE has no WHERE clause
UpdateLastCommitDateAll(repo, repo_name, t) ==
    [k \in 1..Len(repo) |-> [repo[k] EXCEPT !.LastCommitDate = Isoformat(t)]]

\* _update_last_commit_date: UPDATE repository SET LastCommitDate = ? WHERE Name = ?
UpdateLastCommitDate(repo, repo_name, t) ==
    [k \in 1..Len(repo) |->
        IF repo[k].Name = repo_name
        THEN [repo[k] EXCEPT !.LastCommitDate = Isoformat(t)]
        ELSE repo[k]]

\* a plausible slip: the author is inserted without the lookup
GetOrCreateStaffNoLookup(st, author_name) ==
    [staff |-> Append(st, [Name |-> author_name]), id |-> Len(st) + 1]

\* _get_or_create_staff: the table after the call and the identifier returned
GetOrCreateStaff(st, author_name) ==
    LET id == FirstId({k \in 1..Len(st) : st[k].Name = author_name})
    IN IF id # Null
       THEN [staff |-> st, id |-> id]
       ELSE [staff |-> Append(st, [Name |-> author_name]), id |-> Len(st) + 1]

\* a plausible slip: RepoID is nullable, so the INSERT goes through with NULL
\* when the repository has no row
GetOrCreateBranchNullable(br, repo, repo_name, branch_name) ==
    LET rid == RepoIdByName(repo, repo_name)
        id == FirstId({k \in 1..Len(br) :
                         br[k].Name = branch_name /\ br[k].RepoID = rid})
    IN IF id # Null THEN [ok |-> TRUE, branch |-> br, id |-> id]
       ELSE [ok |-> TRUE,
             branch |-> Append(br, [Name |-> branch_name, RepoID |-> rid]),
             id |-> Len(br) + 1]

\* _get_or_create_branch: the table after the call, the identifier returned, and
\* whether the INSERT raised (RepoID is NOT NULL: the subquery yields NULL when
\* the repository has no row)
GetOrCreateBranch(br, repo, repo_name, branch_name) ==
    LET rid == RepoIdByName(repo, repo_name)
        id == IF rid = Null THEN Null
              ELSE FirstId({k \in 1..Len(br) :
                              br[k].Name = branch_name /\ br[k].RepoID = rid})
    IN IF id # Null THEN [ok |-> TRUE, branch |-> br, id |-> id]
       ELSE IF rid = Null THEN [ok |-> FALSE, branch |-> br, id |-> Null]
       ELSE [ok |-> TRUE,
             branch |-> Append(br, [Name |-> branch_name, RepoID |-> rid]),
             id |-> Len(br) + 1]

\* a plausible slip: the check constraint on FileChanges is missing
InsertCommitUnchecked(cm, bid, c) ==
    [ok |-> TRUE,
     commit |-> Append(cm, [AuthorID |-> c.author_id, BranchID |-> bid,
                            Comment |-> c.comment, Date |-> Isoformat(c.date),
                            FileChanges |-> c.file_changes])]

\* _insert_commit: the table after the call and whether the INSERT was accepted
\* (check_commit_filechanges_nonnegative, AuthorID and BranchID NOT NULL)
InsertCommit(cm, bid, c) ==
    IF c.file_changes < 0 \/ bid = Null \/ c.author_id = Null
    THEN [ok |-> FALSE, commit |-> cm]
    ELSE [ok |-> TRUE,
          commit |-> Append(cm, [AuthorID |-> c.author_id, BranchID |-> bid,
                                 Comment |-> c.comment, Date |-> Isoformat(c.date),
                                 FileChanges |-> c.file_changes])]

\* a plausible slip: a commit dated exactly at the watermark counts as new
IsNewerOrEqual(commit_date, W) == commit_date >= W

\* the test of line 202: commit_date > last_commit_date
IsNewer(commit_date, W) == commit_date > W

\* a plausible slip: the two identifiers passed in each other's place
CommitOrmSwapped(aid, bid, rev) ==
    [author_id |-> bid, branch_id |-> aid, comment |-> rev.message,
     date |-> rev.date, file_changes |-> rev.files]

\* the CommitORM built at lines 205-210
CommitOrm(aid, bid, rev) ==
    [author_id |-> aid, branch_id |-> bid, comment |-> rev.message,
     date |-> rev.date, file_changes |-> rev.files]

\* the loop of _get_new_commits from the k-th commit iter_commits delivers on
RECURSIVE GetNewCommitsFrom(_, _, _, _, _, _, _, _, _)
GetNewCommitsFrom(st, br, repo, repo_name, branch_name, hist, W, k, acc) ==
    IF k > Len(hist)
    THEN [ok |-> TRUE, staff |-> st, branch |-> br, new_commits |-> acc,
          inspected |-> Len(hist)]
    ELSE IF IsNewer(hist[k].date, W)
    THEN LET s == GetOrCreateStaff(st, hist[k].author)
             b == GetOrCreateBranch(br, repo, repo_name, branch_name)
         IN IF ~b.ok
            THEN [ok |-> FALSE, staff |-> s.staff, branch |-> br,
                  new_commits |-> acc, inspected |-> k]
            ELSE GetNewCommitsFrom(s.staff, b.branch, repo, repo_name, branch_name,
                                   hist, W, k + 1,
                                   Append(acc, CommitOrm(s.id, b.id, hist[k])))
    ELSE [ok |-> TRUE, staff |-> st, branch |-> br, new_commits |-> acc,
          inspected |-> k]

\* _get_new_commits
GetNewCommits(st, br, repo, repo_name, branch_name, hist, W) ==
    GetNewCommitsFrom(st, br, repo, repo_name, branch_name, hist, W, 1, <<>>)

\* repository.branches
SortedBranches(h) ==
    LET present == {k \in 1..Len(BranchOrder) : BranchOrder[k] \in DOMAIN h}
        F[k \in 0..Len(BranchOrder)] ==
            IF k = 0 THEN <<>>
            ELSE IF k \in present THEN Append(F[k - 1], BranchOrder[k]) ELSE F[k - 1]
    IN F[Len(BranchOrder)]

\* the results recorded for one more call
Record(calls, key, result) == [calls EXCEPT ![key] = @ \cup {result}]

Snapshot == [staff |-> staff, repository |-> repository, branch |-> branch,
             commit |-> commit]

\* ---------------------------------------------------------------- Init
\* a fresh installation: an empty store, nothing in ./tracked_repos, no working
\* copy; the repositories to clone carry InitialHistory on main
Init ==
    /\ staff = <<>> /\ repository = <<>> /\ branch = <<>> /\ commit = <<>>
    /\ listdir = {}
    /\ cloned = {}
    /\ heads = [n \in RepoNames |-> [b \in {"main"} |-> InitialHistory]]
    /\ nrevs = 0
    /\ now = DatetimeMin + 1
    /\ pc = "start"
    /\ runs = 0
    /\ repository_list = <<>>
    /\ idx = 1
    /\ last_commit_date = DatetimeMin
    /\ branches = <<>>
    /\ bi = 1
    /\ branch_id = Null
    /\ new_commits = <<>>
    /\ ci = 1
    /\ inspected = [b \in BranchNames |-> 0]
    /\ db0 = Snapshot
    /\ passRows = <<>>
    /\ wmWrites = 0
    /\ staffCalls = [n \in AuthorNames |-> {}]
    /\ branchCalls = [k \in RepoNames \X BranchNames |-> {}]
    /\ failed = NoFailure
    /\ synced = {}
    /\ aborted = [n \in RepoNames |-> {}]
    /\ lastSynced = [n \in RepoNames |-> {}]
    /\ clean = TRUE
    /\ call = NoCall

\* an exception leaves main: nothing in main or below it catches
Raise(phase, name) ==
    /\ pc' = "crashed"
    /\ failed' = [phase |-> phase, name |-> name]
    /\ clean' = FALSE

\* ------------------------------------------------- the user's environment
\* a commit lands on the tip of a local branch (commit, pull), while fewer
\* than max commits have been added
GitCommitUpTo(max, n, b, a, d, f) ==
    /\ pc = "start"
    /\ nrevs < max
    /\ b \in DOMAIN heads[n]
    /\ heads' = [heads EXCEPT ![n][b] =
                   <<[message |-> Len(InitialHistory) + nrevs + 1, author |-> a,
                      date |-> d, files |-> f]>> \o @]
    /\ nrevs' = nrevs + 1
    /\ UNCHANGED <<dbVars, listdir, cloned, now, pc, runs, repository_list, idx,
                   passVars, staffCalls, branchCalls, failed, synced, aborted,
                   lastSynced, clean, call>>

GitCommit(n, b, a, d, f) == GitCommitUpTo(MaxRevs, n, b, a, d, f)

\* a local branch is created in a working copy, at the tip of another
GitBranch(n, nb, b) ==
    /\ pc = "start"
    /\ n \in cloned
    /\ b \in DOMAIN heads[n]
    /\ nb \notin DOMAIN heads[n]
    /\ heads' = [heads EXCEPT ![n] = [x \in DOMAIN @ \cup {nb} |->
                                        IF x = nb THEN @[b] ELSE @[x]]]
    /\ UNCHANGED <<dbVars, listdir, cloned, nrevs, now, pc, runs, repository_list,
                   idx, passVars, staffCalls, branchCalls, failed, synced,
                   aborted, lastSynced, clean, call>>

\* an entry named n appears in ./tracked_repos
EnvMkdir(n) ==
    /\ pc = "start"
    /\ n \notin listdir
    /\ listdir' = listdir \cup {n}
    /\ UNCHANGED <<dbVars, cloned, heads, nrevs, now, pc, runs, repository_list,
                   idx, passVars, staffCalls, branchCalls, failed, synced,
                   aborted, lastSynced, clean, call>>

\* the wall clock advances
Tick ==
    /\ pc = "start"
    /\ now < MaxTime
    /\ now' = now + 1
    /\ UNCHANGED <<dbVars, envVars, pc, runs, repository_list, idx, passVars,
                   staffCalls, branchCalls, failed, synced, aborted, lastSynced,
                   clean, call>>

\* ------------------------------------------------------------------ main
\* main, lines 24-28, up to the loop of load_tracked_repos
ConstructUpTo(max) ==
    /\ pc = "start"
    /\ runs < max
    /\ runs' = runs + 1
    /\ pc' = "load"
    /\ repository_list' = <<>>
    /\ idx' = 1
    /\ failed' = NoFailure
    /\ synced' = {}
    /\ UNCHANGED <<dbVars, envVars, now, passVars, staffCalls, branchCalls,
                   aborted, lastSynced, clean, call>>

Construct == ConstructUpTo(MaxRuns)

\* the end of one iteration of the loop of load_tracked_repos (lines 43-46)
LoadAppend(name) ==
    /\ repository_list' = Append(repository_list, name)
    /\ idx' = IF idx = Len(TrackedJson) THEN 1 ELSE idx + 1
    /\ pc' = IF idx = Len(TrackedJson) THEN "loop" ELSE "load"

\* load_tracked_repos, lines 33-43, the name is not listed: clone, _create_repo
LoadClone ==
    /\ pc = "load"
    /\ LET name == TrackedJson[idx]
           s == GetOrCreateStaff(staff, heads[name]["main"][1].author)
       IN /\ name \notin listdir
          /\ name \notin cloned
          /\ RepoIdByName(repository, name) = Null
          /\ cloned' = cloned \cup {name}
          /\ staff' = s.staff
          /\ staffCalls' = Record(staffCalls, heads[name]["main"][1].author, s.id)
          /\ repository' = Append(repository,
                                  [Name |-> name, AuthorID |-> s.id,
                                   LastCommitDate |-> Isoformat(DatetimeMin)])
          /\ LoadAppend(name)
    /\ UNCHANGED <<branch, commit, listdir, heads, nrevs, now, runs, passVars,
                   branchCalls, failed, synced, aborted, lastSynced, clean, call>>

\* load_tracked_repos, line 39: clone_from raises (the destination holds a
\* working copy already, or the remote cannot be reached)
LoadCloneRaises ==
    /\ pc = "load"
    /\ TrackedJson[idx] \notin listdir
    /\ Raise("clone", TrackedJson[idx])
    /\ UNCHANGED <<dbVars, envVars, now, runs, repository_list, idx, passVars,
                   staffCalls, branchCalls, synced, aborted, lastSynced, call>>

\* load_tracked_repos, line 40: the clone is made and the author resolved, and
\* the INSERT of _create_repo raises (the store cannot be written)
LoadCreateRepoRaises ==
    /\ pc = "load"
    /\ LET name == TrackedJson[idx]
           s == GetOrCreateStaff(staff, heads[name]["main"][1].author)
       IN /\ name \notin listdir
          /\ name \notin cloned
          /\ cloned' = cloned \cup {name}
          /\ staff' = s.staff
          /\ staffCalls' = Record(staffCalls, heads[name]["main"][1].author, s.id)
          /\ Raise("load", name)
    /\ UNCHANGED <<repository, branch, commit, listdir, heads, nrevs, now, runs,
                   repository_list, idx, passVars, branchCalls, synced, aborted,
                   lastSynced, call>>

\* load_tracked_repos, line 43, the name is listed: the working copy is opened
LoadOpen ==
    /\ pc = "load"
    /\ TrackedJson[idx] \in listdir
    /\ TrackedJson[idx] \in cloned
    /\ LoadAppend(TrackedJson[idx])
    /\ UNCHANGED <<dbVars, envVars, now, runs, passVars, staffCalls, branchCalls,
                   failed, synced, aborted, lastSynced, clean, call>>

\* load_tracked_repos, line 43: git.Repo raises, no working copy at the path
LoadOpenRaises ==
    /\ pc = "load"
    /\ TrackedJson[idx] \in listdir
    /\ TrackedJson[idx] \notin cloned
    /\ Raise("load", TrackedJson[idx])
    /\ UNCHANGED <<dbVars, envVars, now, runs, repository_list, idx, passVars,
                   staffCalls, branchCalls, synced, aborted, lastSynced, call>>

\* -------------------------------------------------- update_repository
\* the repository the pass in progress, or the pass that ended last, is for
Current == repository_list[idx]

\* a slip: the watermark is written when the pass begins and again when it ends
BeginUpdateWritesFirst ==
    /\ pc = "loop"
    /\ idx <= Len(repository_list)
    /\ last_commit_date' = GetLastCommitDate(repository, Current)
    /\ repository' = UpdateLastCommitDate(repository, Current, now)
    /\ branches' = SortedBranches(heads[Current])
    /\ bi' = 1
    /\ branch_id' = Null
    /\ new_commits' = <<>>
    /\ ci' = 1
    /\ inspected' = [b \in BranchNames |-> 0]
    /\ db0' = Snapshot
    /\ passRows' = <<>>
    /\ wmWrites' = 1
    /\ pc' = "branch"
    /\ UNCHANGED <<staff, branch, commit, envVars, now, runs, repository_list,
                   idx, staffCalls, branchCalls, failed, synced, aborted,
                   lastSynced, clean, call>>

\* main, line 31 and update_repository, lines 53-57
BeginUpdate ==
    /\ pc = "loop"
    /\ idx <= Len(repository_list)
    /\ last_commit_date' = GetLastCommitDate(repository, Current)
    /\ branches' = SortedBranches(heads[Current])
    /\ bi' = 1
    /\ branch_id' = Null
    /\ new_commits' = <<>>
    /\ ci' = 1
    /\ inspected' = [b \in BranchNames |-> 0]
    /\ db0' = Snapshot
    /\ passRows' = <<>>
    /\ wmWrites' = 0
    /\ pc' = "branch"
    /\ UNCHANGED <<dbVars, envVars, now, runs, repository_list, idx, staffCalls,
                   branchCalls, failed, synced, aborted, lastSynced, clean, call>>

\* where update_repository goes on once `left` commits of the branch remain
AfterBranch(left) ==
    IF left > 0 THEN pc' = "insert" /\ bi' = bi
    ELSE /\ bi' = bi + 1
         /\ pc' = IF bi = Len(branches) THEN "watermark" ELSE "branch"

\* update_repository, lines 60-65: the branch is resolved and its new commits
\* are collected
ProcessBranch ==
    /\ pc = "branch"
    /\ LET name == branches[bi]
           hist == heads[Current][name]
           b == GetOrCreateBranch(branch, repository, Current, name)
           g == GetNewCommits(staff, b.branch, repository, Current, name, hist,
                              last_commit_date)
           n == Len(g.new_commits)
       IN /\ b.ok /\ g.ok
          /\ branch_id' = b.id
          /\ staff' = g.staff
          /\ branch' = g.branch
          /\ new_commits' = g.new_commits
          /\ ci' = 1
          /\ inspected' = [inspected EXCEPT ![name] = g.inspected]
          /\ staffCalls' = [a \in AuthorNames |->
                              staffCalls[a] \cup
                              {g.new_commits[k].author_id :
                                 k \in {j \in 1..n : hist[j].author = a}}]
          /\ branchCalls' = Record(branchCalls, <<Current, name>>, b.id)
          /\ AfterBranch(n)
    /\ UNCHANGED <<repository, commit, envVars, now, runs, repository_list, idx,
                   last_commit_date, branches, db0, passRows, wmWrites, failed,
                   synced, aborted, lastSynced, clean, call>>

\* update_repository, line 62: _get_or_create_branch raises
ProcessBranchRaises ==
    /\ pc = "branch"
    /\ ~GetOrCreateBranch(branch, repository, Current, branches[bi]).ok
    /\ branchCalls' = Record(branchCalls, <<Current, branches[bi]>>, Null)
    /\ Raise("branch", Current)
    /\ UNCHANGED <<dbVars, envVars, now, runs, repository_list, idx, passVars,
                   staffCalls, synced, aborted, lastSynced, call>>

\* update_repository, lines 68-69: one commit is inserted
InsertCommitStep ==
    /\ pc = "insert"
    /\ LET r == InsertCommit(commit, branch_id, new_commits[ci])
       IN /\ r.ok
          /\ commit' = r.commit
          /\ passRows' = Append(passRows, r.commit[Len(r.commit)])
    /\ ci' = ci + 1
    /\ AfterBranch(Len(new_commits) - ci)
    /\ UNCHANGED <<staff, repository, branch, envVars, now, runs, repository_list,
                   idx, last_commit_date, branches, branch_id, new_commits,
                   inspected, db0, wmWrites, staffCalls, branchCalls, failed,
                   synced, aborted, lastSynced, clean, call>>

\* a slip: the watermark is written although the insert raised
InsertCommitRaisesWrites ==
    /\ pc = "insert"
    /\ repository' = UpdateLastCommitDate(repository, Current, now)
    /\ Raise("insert", Current)
    /\ UNCHANGED <<staff, branch, commit, envVars, now, runs, repository_list,
                   idx, passVars, staffCalls, branchCalls, synced, aborted,
                   lastSynced, call>>

\* update_repository, line 69: the insert raises (a constraint of the table, or
\* the store cannot be written); lines 70-72 are not reached
InsertCommitRaises ==
    /\ pc = "insert"
    /\ aborted' = [aborted EXCEPT ![Current] =
                     {[heads |-> heads[Current], last_commit_date |-> last_commit_date,
                       rows |-> passRows]}]
    /\ Raise("insert", Current)
    /\ UNCHANGED <<dbVars, envVars, now, runs, repository_list, idx, passVars,
                   staffCalls, branchCalls, synced, lastSynced, call>>

\* the newest commit date the pass in progress has inserted
NewestSeen ==
    LET ds == {Fromisoformat(passRows[k].Date) : k \in 1..Len(passRows)}
    IN IF ds = {} THEN DatetimeMin ELSE CHOOSE d \in ds : \A e \in ds : e <= d

\* the end of a pass, writing w as the watermark
EndOfPass(w) ==
    /\ pc = "watermark"
    /\ repository' = UpdateLastCommitDate(repository, Current, w)
    /\ wmWrites' = wmWrites + 1
    /\ synced' = synced \cup {Current}
    /\ lastSynced' = [lastSynced EXCEPT ![Current] = {heads[Current]}]
    /\ idx' = idx + 1
    /\ pc' = "loop"
    /\ UNCHANGED <<staff, branch, commit, envVars, now, runs, repository_list,
                   last_commit_date, branches, bi, branch_id, new_commits, ci,
                   inspected, db0, passRows, staffCalls, branchCalls, failed,
                   aborted, clean, call>>

\* a slip: the watermark is the newest commit date seen, not the wall clock
UpdateWatermarkNewestSeen == EndOfPass(NewestSeen)

\* update_repository, line 72 (datetime.now()), and main, line 33
UpdateWatermark == EndOfPass(now)

\* main, lines 35-39: the commits are dumped
DumpCommits ==
    /\ pc = "loop"
    /\ idx > Len(repository_list)
    /\ pc' = "done"
    /\ UNCHANGED <<dbVars, envVars, now, runs, repository_list, idx, passVars,
                   staffCalls, branchCalls, failed, synced, aborted, lastSynced,
                   clean, call>>

\* the process ends: what it held in memory is gone
Exit ==
    /\ pc \in {"done", "crashed"}
    /\ pc' = "start"
    /\ repository_list' = <<>>
    /\ idx' = 1
    /\ last_commit_date' = DatetimeMin
    /\ branches' = <<>>
    /\ bi' = 1
    /\ branch_id' = Null
    /\ new_commits' = <<>>
    /\ ci' = 1
    /\ inspected' = [b \in BranchNames |-> 0]
    /\ db0' = Snapshot
    /\ passRows' = <<>>
    /\ wmWrites' = 0
    /\ failed' = NoFailure
    /\ synced' = {}
    /\ UNCHANGED <<dbVars, envVars, now, runs, staffCalls, branchCalls, aborted,
                   lastSynced, clean, call>>

Next ==
    \/ \E n \in RepoNames, b \in BranchNames, a \in AuthorNames, d \in Times,
          f \in FileCounts : GitCommit(n, b, a, d, f)
    \/ \E n \in RepoNames, nb \in BranchNames, b \in BranchNames : GitBranch(n, nb, b)
    \/ \E n \in RepoNames : EnvMkdir(n)
    \/ Tick
    \/ Construct
    \/ LoadClone
    \/ LoadCreateRepoRaises
    \/ LoadCloneRaises
    \/ LoadOpen
    \/ LoadOpenRaises
    \/ BeginUpdate
    \/ ProcessBranch
    \/ ProcessBranchRaises
    \/ InsertCommitStep
    \/ InsertCommitRaises
    \/ UpdateWatermark
    \/ DumpCommits
    \/ Exit

Spec == Init /\ [][Next]_vars

\* ------------------------------------- recovery after an aborted pass
\* The runs of main in which the one fault is an insert that raises, the wall
\* clock stays at its first reading, the entries of ./tracked_repos are made
\* by hand, and the user commits (as alice) and branches in the first
\* repository of the list only. Every behaviour is a behaviour of Spec with
\* the bounds MaxRunsRecovery and MaxRevsRecovery in place of MaxRuns and
\* MaxRevs: three runs and two commits are what an aborted pass between two
\* completed ones on a history with a late commit takes.
NextRecovery ==
    \/ \E b \in BranchNames, d \in Times, f \in FileCounts :
          GitCommitUpTo(MaxRevsRecovery, TrackedJson[1], b, "alice", d, f)
    \/ \E nb \in BranchNames, b \in BranchNames : GitBranch(TrackedJson[1], nb, b)
    \/ \E n \in RepoNames : EnvMkdir(n)
    \/ ConstructUpTo(MaxRunsRecovery)
    \/ LoadClone
    \/ LoadOpen
    \/ BeginUpdate
    \/ ProcessBranch
    \/ InsertCommitStep
    \/ InsertCommitRaises
    \/ UpdateWatermark
    \/ DumpCommits
    \/ Exit

SpecRecovery == Init /\ [][NextRecovery]_vars

\* ------------------------------------------- the store called directly
\* _insert_commit called with any CommitOrm (the connection does not enforce
\* foreign keys, so the identifiers need not name rows)
AppendCommit(bid, c) ==
    /\ Len(commit) < MaxCalls
    /\ LET r == InsertCommit(commit, bid, c)
       IN /\ commit' = r.commit
          /\ call' = [op |-> "insert_commit", file_changes |-> c.file_changes,
                      raised |-> ~r.ok, before |-> commit]
    /\ UNCHANGED <<staff, repository, branch, envVars, now, pc, runs,
                   repository_list, idx, passVars, staffCalls, branchCalls,
                   failed, synced, aborted, lastSynced, clean>>

StoreNext ==
    \E bid \in 1..2, aid \in 1..2, d \in Times, f \in {-1, 0, 1} :
        AppendCommit(bid, [author_id |-> aid, branch_id |-> bid, comment |-> 1,
                           date |-> d, file_changes |-> f])

SpecStore == Init /\ [][StoreNext]_vars

\* ------------------------------------------------------------ the claims
\* the repository of the pass in progress, or of the pass that ended last
PassRepo == IF pc \in {"loop", "done"} THEN repository_list[idx - 1] ELSE Current
InPass == pc \in {"branch", "insert", "watermark"}
PassEnded == pc \in {"loop", "done"} /\ idx > 1

\* C1: author get-or-create is idempotent: the staff table never holds two rows
\* with one name, every call the program made for a name returned the same
\* identifier, and a call repeated at once returns the identifier of the first
\* and inserts nothing
C1_StaffIdempotent ==
    /\ \A i, j \in 1..Len(staff) : staff[i].Name = staff[j].Name => i = j
    /\ \A n \in AuthorNames : Cardinality(staffCalls[n]) <= 1
    /\ \A n \in AuthorNames :
          LET r1 == GetOrCreateStaff(staff, n)
              r2 == GetOrCreateStaff(r1.staff, n)
          IN r1.id = r2.id /\ r2.staff = r1.staff

\* an author was resolved for three commit rows or more, one of them in the
\* second run
C1_Witness ==
    /\ runs = 2
    /\ \E n \in AuthorNames :
          /\ staffCalls[n] # {}
          /\ Cardinality({k \in 1..Len(commit) : commit[k].AuthorID \in staffCalls[n]}) >= 3
          /\ \E k \in 1..Len(passRows) : passRows[k].AuthorID \in staffCalls[n]

\* C2: branch get-or-create is idempotent and scoped by repository: at most one
\* branch row per (repository, name), and every call the program made for a
\* repository name and a branch name returned an identifier, the same one each
\* time, also when the repository has no row
C2_BranchIdempotent ==
    /\ \A i, j \in 1..Len(branch) :
          (branch[i].Name = branch[j].Name /\ branch[i].RepoID = branch[j].RepoID)
              => i = j
    /\ \A key \in RepoNames \X BranchNames :
          Null \notin branchCalls[key] /\ Cardinality(branchCalls[key]) <= 1

\* C3: the stored watermark of a repository never decreases, whatever step is
\* taken (a pass that completes, a pass that is aborted)
C3_WatermarkMonotonic ==
    [][\A k \in 1..Len(repository) :
          /\ Len(repository') >= k
          /\ repository'[k].Name = repository[k].Name
          /\ Fromisoformat(repository'[k].LastCommitDate)
                >= Fromisoformat(repository[k].LastCommitDate)]_vars

\* a pass ended that found a watermark above the initial one and raised it
C3_Witness ==
    /\ PassEnded
    /\ last_commit_date > DatetimeMin
    /\ GetLastCommitDate(repository, PassRepo) > last_commit_date

\* the commits of a branch carry strictly increasing timestamps and are
\* delivered newest first
Descending(hist) == \A k \in 1..(Len(hist) - 1) : hist[k].date > hist[k + 1].date
NewerCount(hist, W) == Cardinality({k \in 1..Len(hist) : hist[k].date > W})
BranchIdOf(repo_name, branch_name) ==
    FirstId({k \in 1..Len(branch) :
               /\ branch[k].Name = branch_name
               /\ branch[k].RepoID = RepoIdByName(repository, repo_name)})
RECURSIVE RowsOfBranch(_, _)
RowsOfBranch(rows, bid) ==
    IF rows = <<>> THEN <<>>
    ELSE IF Head(rows).BranchID = bid
    THEN <<Head(rows)>> \o RowsOfBranch(Tail(rows), bid)
    ELSE RowsOfBranch(Tail(rows), bid)
\* the commit row that records commit rev
IsRowOf(row, rev) ==
    /\ row.Comment = rev.message
    /\ row.Date = Isoformat(rev.date)
    /\ row.FileChanges = rev.files
    /\ row.AuthorID \in 1..Len(staff)
    /\ staff[row.AuthorID].Name = rev.author

\* C4: early termination: on a branch whose commits are delivered newest first
\* with strictly increasing timestamps, the traversal takes the k commits newer
\* than the watermark and at most the one behind them, and a pass that
\* completes has inserted for the branch exactly those k commits (none at or
\* below the watermark)
C4_EarlyTermination ==
    /\ (InPass \/ PassEnded) =>
          \A b \in DOMAIN heads[PassRepo] :
             LET hist == heads[PassRepo][b]
                 k == NewerCount(hist, last_commit_date)
             IN (inspected[b] > 0 /\ Descending(hist)) =>
                   inspected[b] = IF k < Len(hist) THEN k + 1 ELSE k
    /\ PassEnded =>
          \A b \in DOMAIN heads[PassRepo] :
             LET hist == heads[PassRepo][b]
                 k == NewerCount(hist, last_commit_date)
                 rows == RowsOfBranch(passRows, BranchIdOf(PassRepo, b))
             IN Descending(hist) =>
                   /\ Len(rows) = k
                   /\ \A j \in 1..k : IsRowOf(rows[j], hist[j])

\* a pass ended on a branch of three commits whose middle one is dated exactly
\* at the watermark: one commit inserted, two taken from the iterator
C4_Witness ==
    /\ PassEnded
    /\ \E b \in DOMAIN heads[PassRepo] :
          LET hist == heads[PassRepo][b]
          IN /\ Len(hist) >= 3
             /\ Descending(hist)
             /\ hist[2].date = last_commit_date
             /\ inspected[b] = 2
             /\ Len(RowsOfBranch(passRows, BranchIdOf(PassRepo, b))) = 1

\* no commit of any branch of the repository is newer than the watermark the
\* pass read
EmptyDelta(n) ==
    \A b \in DOMAIN heads[n] : \A k \in 1..Len(heads[n][b]) :
        heads[n][b][k].date <= last_commit_date

\* C5: a pass that finds no commit newer than the watermark on any branch
\* inserts no commit row and sets the watermark to the time the pass ended
C5_NoOpOnEmptyDelta ==
    (PassEnded /\ EmptyDelta(PassRepo)) =>
        /\ passRows = <<>>
        /\ commit = db0.commit
        /\ GetLastCommitDate(repository, PassRepo) = now

\* such a pass ended and moved the watermark forward
C5_Witness ==
    /\ PassEnded
    /\ EmptyDelta(PassRepo)
    /\ last_commit_date > DatetimeMin
    /\ now > last_commit_date
    /\ GetLastCommitDate(repository, PassRepo) = now

\* C6: once a pass completed for a repository and its history is as it was
\* then, a further pass inserts no commit row, no author row and no branch row
C6_RerunInsertsNothing ==
    (InPass /\ lastSynced[Current] = {heads[Current]}) =>
        /\ commit = db0.commit
        /\ staff = db0.staff
        /\ branch = db0.branch

\* C7: at the end of a pass, with only commits added to branch tips and no
\* pass aborted, every commit of a branch dated at or before the stored
\* watermark has a commit row for that branch
C7_WatermarkComplete ==
    (PassEnded /\ clean /\ \A n \in RepoNames : DOMAIN heads[n] = {"main"}) =>
        \A k \in 1..Len(heads[PassRepo]["main"]) :
            LET rev == heads[PassRepo]["main"][k]
            IN rev.date <= GetLastCommitDate(repository, PassRepo) =>
                  \E j \in 1..Len(commit) :
                      /\ commit[j].BranchID = BranchIdOf(PassRepo, "main")
                      /\ IsRowOf(commit[j], rev)

\* C8: _insert_commit with a negative file_changes raises the constraint
\* violation and leaves the commit table as it was
C8_NegativeRejected ==
    (call.op = "insert_commit" /\ call.file_changes < 0) =>
        call.raised /\ commit = call.before

\* a negative file_changes was refused while the table held a row
C8_Witness ==
    /\ call.op = "insert_commit"
    /\ call.file_changes < 0
    /\ call.raised
    /\ Len(commit) > 0

\* C9: when an insert of a commit raises, the pass stops there: the repository
\* is not marked synced, the repository table (the watermark) is as the pass
\* found it, and the commit table is what the pass found followed by the rows
\* it inserted, the last of them the commits of the branch before the failing one
C9_InsertFailure ==
    (pc = "crashed" /\ failed.phase = "insert") =>
        /\ Current \notin synced
        /\ repository = db0.repository
        /\ GetLastCommitDate(repository, Current) = last_commit_date
        /\ commit = db0.commit \o passRows
        /\ Len(passRows) >= ci - 1
        /\ \A k \in 1..(ci - 1) :
              LET row == passRows[Len(passRows) - (ci - 1) + k]
              IN /\ row.BranchID = branch_id
                 /\ row.Comment = new_commits[k].comment
                 /\ row.AuthorID = new_commits[k].author_id

\* an insert raised after the pass had inserted rows, in a repository whose
\* watermark was above the initial one
C9_Witness ==
    /\ pc = "crashed"
    /\ failed.phase = "insert"
    /\ ci > 1
    /\ Len(passRows) > ci - 1
    /\ last_commit_date > DatetimeMin

\* C10: when the load or the pass of a repository raises, every later
\* repository of the list is still synced in that run
C10_FailureIsolated ==
    pc = "crashed" =>
        \A k \in 1..Len(TrackedJson) : k > idx => TrackedJson[k] \in synced

\* C11: cross-branch duplication: at the end of a pass, a revision that is in
\* the history of two branches of the repository and is newer than the
\* watermark the pass read has two distinct commit rows inserted by the pass,
\* one carrying each branch's identifier
C11_CrossBranchDuplication ==
    PassEnded =>
        \A b1, b2 \in DOMAIN heads[PassRepo] :
            b1 # b2 =>
                \A k1 \in 1..Len(heads[PassRepo][b1]) :
                \A k2 \in 1..Len(heads[PassRepo][b2]) :
                    LET rev == heads[PassRepo][b1][k1]
                    IN (rev = heads[PassRepo][b2][k2] /\ rev.date > last_commit_date) =>
                          \E j1, j2 \in 1..Len(passRows) :
                              /\ j1 # j2
                              /\ passRows[j1].BranchID = BranchIdOf(PassRepo, b1)
                              /\ passRows[j2].BranchID = BranchIdOf(PassRepo, b2)
                              /\ passRows[j1].BranchID # passRows[j2].BranchID
                              /\ IsRowOf(passRows[j1], rev)
                              /\ IsRowOf(passRows[j2], rev)

\* a pass that ended for a repository whose watermark was the initial value
FirstPassEnded == PassEnded /\ last_commit_date = DatetimeMin
\* the author names on the commits of repository n
AuthorsObserved(n) ==
    {a \in AuthorNames :
        \E b \in DOMAIN heads[n] : \E k \in 1..Len(heads[n][b]) :
            heads[n][b][k].author = a}
\* one staff row per author name observed and one branch row per branch
OneRowPerAuthorAndBranch(n) ==
    /\ \A a \in AuthorsObserved(n) :
          Cardinality({i \in 1..Len(staff) : staff[i].Name = a}) = 1
    /\ \A b \in DOMAIN heads[n] :
          Cardinality({i \in 1..Len(branch) :
                          /\ branch[i].Name = b
                          /\ branch[i].RepoID = RepoIdByName(repository, n)}) = 1
\* rows holds exactly one row for commit k of branch b of repository n,
\* attributed to the commit's author and to the branch
OneRowPerCommit(rows, n, b, k) ==
    Cardinality({j \in 1..Len(rows) :
                    /\ rows[j].BranchID = BranchIdOf(n, b)
                    /\ IsRowOf(rows[j], heads[n][b][k])}) = 1

\* C12 as stated: after a completed pass that found the initial watermark the
\* staff table has one row per author name observed, the branch table one row
\* per branch, the commit table one row per commit per branch attributed to
\* its author and branch, and the watermark is the time the pass ended, which
\* is later than every commit timestamp
C12_EndToEnd ==
    FirstPassEnded =>
        /\ OneRowPerAuthorAndBranch(PassRepo)
        /\ \A b \in DOMAIN heads[PassRepo] : \A k \in 1..Len(heads[PassRepo][b]) :
              /\ OneRowPerCommit(commit, PassRepo, b, k)
              /\ now > heads[PassRepo][b][k].date
        /\ GetLastCommitDate(repository, PassRepo) = now

\* C12 amended: after a completed pass that found the initial watermark the
\* staff table has one row per author name observed, the branch table one row
\* per branch, the pass has inserted one row per commit per branch attributed
\* to its author and branch and no other row, and the watermark is the time
\* the pass ended, whatever the commit timestamps are
C12_FirstPass ==
    FirstPassEnded =>
        /\ OneRowPerAuthorAndBranch(PassRepo)
        /\ \A b \in DOMAIN heads[PassRepo] : \A k \in 1..Len(heads[PassRepo][b]) :
              OneRowPerCommit(passRows, PassRepo, b, k)
        /\ \A j \in 1..Len(passRows) :
              \E b \in DOMAIN heads[PassRepo] : \E k \in 1..Len(heads[PassRepo][b]) :
                  /\ passRows[j].BranchID = BranchIdOf(PassRepo, b)
                  /\ IsRowOf(passRows[j], heads[PassRepo][b][k])
        /\ commit = db0.commit \o passRows
        /\ GetLastCommitDate(repository, PassRepo) = now

\* a first pass ended on two branches with two authors, three commits on one
\* of them, after the repositories of the list before it were synced
C12_Witness ==
    /\ FirstPassEnded
    /\ Cardinality(DOMAIN heads[PassRepo]) = 2
    /\ Cardinality(AuthorsObserved(PassRepo)) = 2
    /\ \E b \in DOMAIN heads[PassRepo] : Len(heads[PassRepo][b]) = 3
    /\ Len(passRows) >= 5
    /\ Len(db0.commit) > 0

\* C13: watermark write ordering: a pass writes the watermark at most once;
\* while the pass is inserting it has not written it, and when the pass has
\* completed it has written it exactly once; the write is the step that ends
\* the pass, taken when every branch has been processed, it stores the
\* wall-clock time for the repository of the pass, and no step inserts a
\* commit row in or after it
C13_WatermarkWriteOrdering ==
    /\ [](/\ wmWrites <= 1
          /\ InPass => wmWrites = 0
          /\ PassEnded => wmWrites = 1)
    /\ [][/\ commit' # commit => (wmWrites = 0 /\ wmWrites' = 0)
          /\ wmWrites' > wmWrites =>
                /\ wmWrites' = 1
                /\ bi > Len(branches)
                /\ commit' = commit
                /\ commit = db0.commit \o passRows
                /\ GetLastCommitDate(repository', Current) = now
                /\ pc' = "loop"]_vars

\* a pass over two branches ended having inserted rows for both and written
\* the watermark once
C13_Witness ==
    /\ PassEnded
    /\ wmWrites = 1
    /\ Len(branches) = 2
    /\ \A b \in DOMAIN heads[PassRepo] :
          Len(RowsOfBranch(passRows, BranchIdOf(PassRepo, b))) >= 2
    /\ GetLastCommitDate(repository, PassRepo) = now

\* C14: initial watermark: a repository row carries the minimum timestamp as
\* its watermark from the step that creates it until a pass completes for
\* that repository, and _get_last_commit_date for a repository no pass has
\* completed for returns the minimum timestamp, whether the repository has a
\* row or not
C14_InitialWatermark ==
    /\ [](\A n \in RepoNames :
            lastSynced[n] = {} =>
               /\ GetLastCommitDate(repository, n) = DatetimeMin
               /\ \A k \in 1..Len(repository) :
                     repository[k].Name = n =>
                        repository[k].LastCommitDate = Isoformat(DatetimeMin))
    /\ [][\A k \in 1..Len(repository') :
             k > Len(repository) =>
                Fromisoformat(repository'[k].LastCommitDate) = DatetimeMin]_vars
    /\ [](InPass /\ lastSynced[Current] = {} => last_commit_date = DatetimeMin)

\* a pass is in progress for a repository that has no row and was never
\* synced, while another repository has a row and was never synced either
C14_Witness ==
    /\ InPass
    /\ lastSynced[Current] = {}
    /\ RepoIdByName(repository, Current) = Null
    /\ last_commit_date = DatetimeMin
    /\ \E n \in RepoNames :
          /\ RepoIdByName(repository, n) # Null
          /\ lastSynced[n] = {}
          /\ now > DatetimeMin + 1

\* C15: acquisition is idempotent: whatever the number of loads, clone_from is
\* called for a listed repository only when its working copy is absent (so for
\* a repository that an earlier load cloned and registered, clone_from is not
\* called again and cannot fail on the working copy that is there), and the
\* repository table holds at most one row per repository name
C15_AcquisitionIdempotent ==
    /\ (/\ pc = "crashed"
        /\ failed.phase = "clone"
        /\ RepoIdByName(repository, failed.name) # Null) => failed.name \notin cloned
    /\ \A i, j \in 1..Len(repository) :
          repository[i].Name = repository[j].Name => i = j

\* C16: referential integrity: in every state reached by loads and passes,
\* every commit row names an existing staff row as author and an existing
\* branch row, every branch row names an existing repository row, and a
\* branch row is created only by a pass, for the repository that pass is for
C16_ReferentialIntegrity ==
    /\ [](/\ \A k \in 1..Len(commit) :
                /\ commit[k].AuthorID \in 1..Len(staff)
                /\ commit[k].BranchID \in 1..Len(branch)
          /\ \A k \in 1..Len(branch) : branch[k].RepoID \in 1..Len(repository)
          /\ \A k \in 1..Len(repository) : repository[k].AuthorID \in 1..Len(staff))
    /\ [][\A k \in 1..Len(branch') :
             k > Len(branch) =>
                /\ pc = "branch"
                /\ branch'[k].RepoID = RepoIdByName(repository, Current)
                /\ branch'[k].RepoID \in 1..Len(repository)
                /\ repository[branch'[k].RepoID].Name = Current]_vars

\* commit rows of two repositories, one of them on a branch other than main,
\* by two authors
C16_Witness ==
    /\ \E i, j \in 1..Len(commit) :
          /\ branch[commit[i].BranchID].RepoID # branch[commit[j].BranchID].RepoID
          /\ commit[i].AuthorID # commit[j].AuthorID
          /\ branch[commit[i].BranchID].Name = "dev"
    /\ Len(repository) = 2

\* C17: within-branch insertion order: of two rows a pass inserted for one
\* branch, the one inserted first (the earlier row) does not carry the later
\* timestamp
C17_OldestFirst ==
    \A i, j \in 1..Len(passRows) :
        (i < j /\ passRows[i].BranchID = passRows[j].BranchID) =>
            Fromisoformat(passRows[i].Date) <= Fromisoformat(passRows[j].Date)

\* C18: registry invariant: every handle load_tracked_repos has put in the
\* list it returns has a Repository row under the name update_repository
\* derives from the handle
C18_RegistryInvariant ==
    \A k \in 1..Len(repository_list) :
        RepoIdByName(repository, repository_list[k]) # Null

\* a pass is in progress, has completed, or was aborted
PassBegun ==
    InPass \/ PassEnded \/ (pc = "crashed" /\ failed.phase \in {"branch", "insert"})

\* C20: frame of a sync pass: from the beginning of a pass for repository R
\* on, through its end or its abort, the repository table has the rows it had
\* and each row of another repository is as it was (its watermark included),
\* the staff, branch and commit rows that existed are all there and as they
\* were, and every branch row and commit row added belongs to R
C20_Frame ==
    PassBegun =>
        LET rid == RepoIdByName(repository, PassRepo)
        IN /\ Len(repository) = Len(db0.repository)
           /\ \A k \in 1..Len(repository) :
                 /\ repository[k].Name = db0.repository[k].Name
                 /\ repository[k].AuthorID = db0.repository[k].AuthorID
                 /\ repository[k].Name # PassRepo => repository[k] = db0.repository[k]
           /\ Len(staff) >= Len(db0.staff)
           /\ \A k \in 1..Len(db0.staff) : staff[k] = db0.staff[k]
           /\ Len(branch) >= Len(db0.branch)
           /\ \A k \in 1..Len(db0.branch) : branch[k] = db0.branch[k]
           /\ Len(commit) >= Len(db0.commit)
           /\ \A k \in 1..Len(db0.commit) : commit[k] = db0.commit[k]
           /\ \A k \in 1..Len(branch) : k > Len(db0.branch) => branch[k].RepoID = rid
           /\ \A k \in 1..Len(commit) :
                 k > Len(db0.commit) => branch[commit[k].BranchID].RepoID = rid

\* a pass completed that added a branch row and commit rows and moved its
\* repository's watermark, while the other repository had a branch row, commit
\* rows and a watermark of its own
C20_Witness ==
    /\ PassEnded
    /\ Len(branch) > Len(db0.branch)
    /\ Len(commit) > Len(db0.commit)
    /\ GetLastCommitDate(repository, PassRepo) > last_commit_date
    /\ \E n \in RepoNames :
          /\ n # PassRepo
          /\ GetLastCommitDate(db0.repository, n) > DatetimeMin
          /\ GetLastCommitDate(db0.repository, n) # GetLastCommitDate(repository, PassRepo)
          /\ \E k \in 1..Len(db0.commit) :
                db0.branch[db0.commit[k].BranchID].RepoID = RepoIdByName(repository, n)

\* C19: at-least-once recovery: when a pass completes for a repository whose
\* earlier pass was aborted by an insert after it had inserted rows, the
\* history being what it was at the abort, every commit that was newer than
\* the watermark the aborted pass read has a commit row for each branch it is
\* on, and every row the aborted pass inserted is in the commit table twice
\* or more
C19_AtLeastOnceRecovery ==
    PassEnded =>
        \A a \in aborted[PassRepo] :
            (a.heads = heads[PassRepo] /\ a.rows # <<>>) =>
                /\ \A b \in DOMAIN a.heads : \A k \in 1..Len(a.heads[b]) :
                      a.heads[b][k].date > a.last_commit_date =>
                          \E j \in 1..Len(commit) :
                              /\ commit[j].BranchID = BranchIdOf(PassRepo, b)
                              /\ IsRowOf(commit[j], a.heads[b][k])
                /\ \A i \in 1..Len(a.rows) :
                      Cardinality({j \in 1..Len(commit) : commit[j] = a.rows[i]}) >= 2

====
